---------------------------- MODULE Spec2Model ----------------------------
(***************************************************************************)
(* The athlete resource of workout_api (atleta/controller.py): the six     *)
(* request handlers post, query, query_paginated, get, patch and delete,   *)
(* each running in its own store session, interleaved at the points where  *)
(* the handler awaits the store.                                           *)
(*                                                                         *)
(* Optional[T] values are sequences of length at most one: <<>> is None,   *)
(* <<v>> is the value v.  HTTP error details are tuples of the f-string's  *)
(* literal parts and interpolated values.                                  *)
(***************************************************************************)
EXTENDS Integers, Sequences, FiniteSets, TLC

\* ------------------------------------------------------------------ bounds
MaxSessions == 2        \* requests in flight at the same time
MaxUuid == 2            \* uuid4() calls, hence persist attempts of post
MaxClock == 1           \* datetime.utcnow() reads a value from 0 to MaxClock

Sessions == 1..MaxSessions
UUIDs == 1..MaxUuid
Times == 0..MaxClock

\* ------------------------------------------------------------ input domains
NomesIn == {"Jane"}
NomesUp == {"Joe"}
CPFs == {"111", "222"}
PesosIn == {70}
PesosUp == {80}
CategoriaNomes == {"Scale", "Elite"}          \* "Elite" has no row
CentroNomes == {"CT King", "CT Nowhere"}      \* "CT Nowhere" has no row
QueryNomes == {<<>>, <<"">>, <<"Jane">>}
QueryCpfs == {<<>>, <<"">>, <<"111">>}
Pages == {1, 2}
Sizes == {1}

\* AtletaIn, the body of a create.
AtletaInputs ==
    [nome : NomesIn, cpf : CPFs, peso : PesosIn,
     categoria : [nome : CategoriaNomes],
     centro_treinamento : [nome : CentroNomes]]

\* AtletaUpdate, the body of a partial update: the fields a client may send,
\* each one unset (<<>>) or set to a value.
AtletaUpdateFields == {"nome", "peso"}

AtletaUpdates ==
    [nome : {<<>>} \cup {<<n>> : n \in NomesUp},
     peso : {<<>>} \cup {<<p>> : p \in PesosUp}]

\* --------------------------------------------------------------- the state
VARIABLES
    atletas,        \* the athlete table: a set of rows
    categorias,     \* the category table
    centros,        \* the training-center table
    issued,         \* number of uuid4() values drawn so far
    sess,           \* sess[s]: the request that session s is serving
    reply,          \* the response sent by the step just taken, NoReply if none
    attempts,       \* history: cpf and status of every persist of post, by id
    created,        \* history: id, cpf and created_at of every row inserted
    deleted         \* history: ids whose delete has committed

vars == <<atletas, categorias, centros, issued, sess, reply, attempts,
          created, deleted>>

Idle == [pc |-> "idle"]

NoReply == [op |-> "none"]

\* ---------------------------------------------------------- store queries
\* select(Model).filter_by(nome=...) ... .scalars().first()
FirstByNome(table, nome) ==
    LET hits == {r \in table : r.nome = nome}
    IN  IF hits = {} THEN <<>> ELSE <<CHOOSE r \in hits : TRUE>>

\* select(AtletaModel).filter_by(id=id) ... .scalars().first()
FirstById(table, id) ==
    LET hits == {r \in table : r.id = id}
    IN  IF hits = {} THEN <<>> ELSE <<CHOOSE r \in hits : TRUE>>

\* The unique constraint on atletas.cpf: INSERT of row raises IntegrityError.
ViolatesUnique(table, row) == \E r \in table : r.cpf = row.cpf

\* Python truthiness of an Optional[str]: None and "" are both falsy.
Truthy(opt) == opt # <<>> /\ opt[1] # ""

\* uuid4(): a value no earlier call returned.
Uuid4(n) == n + 1

\* ------------------------------------------------------------------- post
\* CategoriaNotFound with a detail that does not say which category.
CategoriaNotFoundUnnamed(nome) ==
    [status |-> 400, detail |-> <<"A categoria ", "", " nao foi encontrada.">>]

\* Lines 47-51: the 400 raised when the category lookup finds no row.
CategoriaNotFound(nome) ==
    [status |-> 400,
     detail |-> <<"A categoria ", nome, " nao foi encontrada.">>]

\* Lines 63-67: the 400 raised when the training-center lookup finds no row.
CentroNotFound(nome) ==
    [status |-> 400,
     detail |-> <<"O centro de treinamento ", nome, " nao foi encontrado.">>]

\* Lines 69-71: AtletaOut(id=uuid4(), created_at=utcnow(), **atleta_in).
NewAtletaOut(atleta_in, id, t) ==
    [id |-> id, created_at |-> t,
     nome |-> atleta_in.nome, cpf |-> atleta_in.cpf, peso |-> atleta_in.peso,
     categoria |-> atleta_in.categoria,
     centro_treinamento |-> atleta_in.centro_treinamento]

\* NewAtletaModel with the two foreign keys exchanged.
NewAtletaModelSwapped(atleta_out, categoria, centro_treinamento) ==
    [id |-> atleta_out.id, created_at |-> atleta_out.created_at,
     nome |-> atleta_out.nome, cpf |-> atleta_out.cpf, peso |-> atleta_out.peso,
     categoria_id |-> centro_treinamento.pk_id,
     centro_treinamento_id |-> categoria.pk_id]

\* Lines 72-77: AtletaModel(**atleta_out.model_dump(exclude={...})) with the
\* foreign keys of the rows the two lookups returned.
NewAtletaModel(atleta_out, categoria, centro_treinamento) ==
    [id |-> atleta_out.id, created_at |-> atleta_out.created_at,
     nome |-> atleta_out.nome, cpf |-> atleta_out.cpf, peso |-> atleta_out.peso,
     categoria_id |-> categoria.pk_id,
     centro_treinamento_id |-> centro_treinamento.pk_id]

\* PostPersistOutcome whose IntegrityError clause answers 500 like the other.
PostPersistOutcomeGeneric(table, atleta_out, atleta_model, fault) ==
    IF fault \/ ViolatesUnique(table, atleta_model)
    THEN [table |-> table,
          pending |-> IF fault THEN {atleta_model} ELSE {},
          response |-> [status |-> 500,
                        detail |-> <<"Ocorreu um erro ao inserir os dados no banco">>]]
    ELSE [table |-> table \cup {atleta_model}, pending |-> {},
          response |-> [status |-> 201, body |-> atleta_out]]

\* PostPersistOutcome whose IntegrityError clause is swallowed: the handler
\* goes on to return the athlete it did not store.
PostPersistOutcomeSwallowed(table, atleta_out, atleta_model, fault) ==
    IF fault
    THEN [table |-> table, pending |-> {atleta_model},
          response |-> [status |-> 500,
                        detail |-> <<"Ocorreu um erro ao inserir os dados no banco">>]]
    ELSE [table |-> IF ViolatesUnique(table, atleta_model) THEN table
                    ELSE table \cup {atleta_model},
          pending |-> {},
          response |-> [status |-> 201, body |-> atleta_out]]

\* PostPersistOutcome whose IntegrityError clause raises without rollback().
PostPersistOutcomeNoRollback(table, atleta_out, atleta_model, fault) ==
    IF fault \/ ViolatesUnique(table, atleta_model)
    THEN [table |-> table, pending |-> {atleta_model},
          response |->
              IF fault
              THEN [status |-> 500,
                    detail |-> <<"Ocorreu um erro ao inserir os dados no banco">>]
              ELSE [status |-> 303,
                    detail |-> <<"Ja existe um atleta cadastrado com o cpf: ",
                                 atleta_out.cpf>>]]
    ELSE [table |-> table \cup {atleta_model}, pending |-> {},
          response |-> [status |-> 201, body |-> atleta_out]]

\* Lines 79-93: add, commit and the two except clauses.  fault is TRUE when
\* the store fails for a reason other than the unique constraint.  The result
\* is the table after the handler, the response, and the rows the session
\* still holds as pending when the handler is left.
PostPersistOutcome(table, atleta_out, atleta_model, fault) ==
    IF fault
    THEN [table |-> table, pending |-> {atleta_model},
          response |-> [status |-> 500,
                        detail |-> <<"Ocorreu um erro ao inserir os dados no banco">>]]
    ELSE IF ViolatesUnique(table, atleta_model)
    THEN [table |-> table, pending |-> {},
          response |-> [status |-> 303,
                        detail |-> <<"Ja existe um atleta cadastrado com o cpf: ",
                                     atleta_out.cpf>>]]
    ELSE [table |-> table \cup {atleta_model}, pending |-> {},
          response |-> [status |-> 201, body |-> atleta_out]]

\* Lines 35-51: the request arrives and the category is looked up.
PostLookupCategoria(s, atleta_in) ==
    /\ sess[s].pc = "idle"
    /\ LET categoria == FirstByNome(categorias, atleta_in.categoria.nome)
       IN  IF categoria = <<>>
           THEN /\ sess' = [sess EXCEPT ![s] = Idle]
                /\ reply' = [op |-> "post", request |-> atleta_in,
                             response |-> CategoriaNotFound(atleta_in.categoria.nome),
                             pending |-> {}]
           ELSE /\ sess' = [sess EXCEPT ![s] =
                       [pc |-> "post_centro", atleta_in |-> atleta_in,
                        categoria |-> categoria[1]]]
                /\ reply' = NoReply
    /\ UNCHANGED <<atletas, categorias, centros, issued, attempts, created, deleted>>

\* Lines 53-67: the training center is looked up.
PostLookupCentro(s) ==
    /\ sess[s].pc = "post_centro"
    /\ LET nome == sess[s].atleta_in.centro_treinamento.nome
           centro_treinamento == FirstByNome(centros, nome)
       IN  IF centro_treinamento = <<>>
           THEN /\ sess' = [sess EXCEPT ![s] = Idle]
                /\ reply' = [op |-> "post",
                             request |-> sess[s].atleta_in,
                             response |-> CentroNotFound(nome), pending |-> {}]
           ELSE /\ sess' = [sess EXCEPT ![s] =
                       [pc |-> "post_persist", atleta_in |-> sess[s].atleta_in,
                        categoria |-> sess[s].categoria,
                        centro_treinamento |-> centro_treinamento[1]]]
                /\ reply' = NoReply
    /\ UNCHANGED <<atletas, categorias, centros, issued, attempts, created, deleted>>

\* Lines 68-93: the athlete is built and persisted.
PostPersistStep(s, utcnow, fault) ==
    /\ sess[s].pc = "post_persist"
    /\ issued < MaxUuid
    /\ LET atleta_out == NewAtletaOut(sess[s].atleta_in, Uuid4(issued), utcnow)
           atleta_model == NewAtletaModel(atleta_out, sess[s].categoria,
                                          sess[s].centro_treinamento)
           out == PostPersistOutcome(atletas, atleta_out, atleta_model, fault)
       IN  /\ atletas' = out.table
           /\ created' = created \cup
                  {[id |-> r.id, cpf |-> r.cpf, created_at |-> r.created_at] :
                   r \in out.table \ atletas}
           /\ attempts' = [i \in 1..Uuid4(issued) |->
                  IF i \in DOMAIN attempts THEN attempts[i]
                  ELSE [cpf |-> atleta_out.cpf, status |-> out.response.status]]
           /\ reply' = [op |-> "post", request |-> sess[s].atleta_in,
                        response |-> out.response, pending |-> out.pending]
    /\ sess' = [sess EXCEPT ![s] = Idle]
    /\ issued' = Uuid4(issued)
    /\ UNCHANGED <<categorias, centros, deleted>>

PostPersist(s) == \E utcnow \in Times : PostPersistStep(s, utcnow, FALSE)

PostPersistFails(s) == \E utcnow \in Times : PostPersistStep(s, utcnow, TRUE)

\* ------------------------------------------------- query, query_paginated
\* Lines 107-116: the unpaginated list.  The result is the set of rows the
\* query selects (the order of the rows is the store's).
QuerySelect(table, nome, cpf) ==
    LET q0 == table
        q1 == IF Truthy(nome) THEN {r \in q0 : r.nome = nome[1]} ELSE q0
        q2 == IF Truthy(cpf) THEN {r \in q1 : r.cpf = cpf[1]} ELSE q1
    IN  q2

\* QueryPaginatedSelect that forgets the cpf filter.
QueryPaginatedSelectNomeOnly(table, nome, cpf) ==
    IF Truthy(nome) THEN {r \in table : r.nome = nome[1]} ELSE table

\* Lines 130-135: the query the paginated list hands to paginate().
QueryPaginatedSelect(table, nome, cpf) ==
    LET q0 == table
        q1 == IF Truthy(nome) THEN {r \in q0 : r.nome = nome[1]} ELSE q0
        q2 == IF Truthy(cpf) THEN {r \in q1 : r.cpf = cpf[1]} ELSE q1
    IN  q2

\* The rows of a set as a sequence, in the store's order (insertion order,
\* which is the order of the ids here).
RECURSIVE InStoreOrder(_)
InStoreOrder(rows) ==
    IF rows = {} THEN <<>>
    ELSE LET r == CHOOSE x \in rows : \A y \in rows : x.id <= y.id
         IN  <<r>> \o InStoreOrder(rows \ {r})

Min(a, b) == IF a < b THEN a ELSE b

\* Line 137: paginate(db_session, query) with the request's page and size.
Paginate(rows, page, size) ==
    LET all == InStoreOrder(rows)
    IN  [items |-> SubSeq(all, (page - 1) * size + 1, Min(page * size, Len(all))),
         total |-> Len(all), page |-> page, size |-> size]

Query(nome, cpf) ==
    /\ \E s \in Sessions : sess[s].pc = "idle"
    /\ reply' = [op |-> "query",
                 request |-> [nome |-> nome, cpf |-> cpf],
                 response |-> [status |-> 200,
                               body |-> QuerySelect(atletas, nome, cpf)]]
    /\ UNCHANGED sess
    /\ UNCHANGED <<atletas, categorias, centros, issued, attempts, created, deleted>>

QueryPaginated(nome, cpf, page, size) ==
    /\ \E s \in Sessions : sess[s].pc = "idle"
    /\ reply' = [op |-> "query_paginated",
                 request |-> [nome |-> nome, cpf |-> cpf],
                 response |-> [status |-> 200,
                               body |-> Paginate(QueryPaginatedSelect(atletas, nome, cpf),
                                                 page, size)]]
    /\ UNCHANGED sess
    /\ UNCHANGED <<atletas, categorias, centros, issued, attempts, created, deleted>>

\* -------------------------------------------------------------------- get
\* Lines 156-160.
GetNotFound(id) ==
    [status |-> 404, detail |-> <<"Atleta nao encontrado no id: ", id>>]

\* Lines 149-162.
Get(id) ==
    /\ \E s \in Sessions : sess[s].pc = "idle"
    /\ LET atleta == FirstById(atletas, id)
       IN  reply' = [op |-> "get", request |-> [id |-> id],
                     response |-> IF atleta = <<>> THEN GetNotFound(id)
                                  ELSE [status |-> 200, body |-> atleta[1]]]
    /\ UNCHANGED sess
    /\ UNCHANGED <<atletas, categorias, centros, issued, attempts, created, deleted>>

\* An exception no handler catches: the framework's default response.
Unhandled == [status |-> 500, detail |-> <<"Internal Server Error">>]

\* ------------------------------------------------------------------ patch
\* Lines 182-186.
PatchNotFound(id) ==
    [status |-> 404, detail |-> <<"Atleta nao encontrado no id: ", id>>]

\* model_dump() without exclude_unset: the unset fields come with their default.
ModelDumpAll(atleta_up) ==
    [k \in AtletaUpdateFields |->
        IF atleta_up[k] # <<>> THEN atleta_up[k][1]
        ELSE IF k = "nome" THEN "" ELSE 0]

\* Line 188: atleta_up.model_dump(exclude_unset=True): the fields the body
\* carries, with their values.
ModelDumpExcludeUnset(atleta_up) ==
    [k \in {f \in AtletaUpdateFields : atleta_up[f] # <<>>} |-> atleta_up[k][1]]

\* SetAttrs that also stamps the athlete, as an update timestamp would.
SetAttrsStamped(atleta, atleta_update) ==
    [k \in DOMAIN atleta |->
        IF k \in DOMAIN atleta_update THEN atleta_update[k]
        ELSE IF k = "created_at" THEN 0 ELSE atleta[k]]

\* Lines 189-190: setattr(atleta, key, value) for every item of the dump.
SetAttrs(atleta, atleta_update) ==
    [k \in DOMAIN atleta |->
        IF k \in DOMAIN atleta_update THEN atleta_update[k] ELSE atleta[k]]

\* Line 192: commit() flushes the attributes that were set as one UPDATE of
\* the loaded row; an UPDATE that matches no row raises StaleDataError.
CommitUpdate(table, id, atleta_update) ==
    IF DOMAIN atleta_update = {} THEN [error |-> FALSE, table |-> table]
    ELSE IF \A r \in table : r.id # id THEN [error |-> TRUE, table |-> table]
    ELSE [error |-> FALSE,
          table |-> {IF r.id = id THEN SetAttrs(r, atleta_update) ELSE r :
                     r \in table}]

\* Lines 176-186: the request arrives and the athlete is fetched.
PatchFetch(s, id, atleta_up) ==
    /\ sess[s].pc = "idle"
    /\ LET atleta == FirstById(atletas, id)
       IN  IF atleta = <<>>
           THEN /\ reply' = [op |-> "patch",
                             request |-> [id |-> id, atleta_up |-> atleta_up],
                             response |-> PatchNotFound(id)]
                /\ UNCHANGED sess
           ELSE /\ sess' = [sess EXCEPT ![s] =
                       [pc |-> "patch_commit", id |-> id, atleta_up |-> atleta_up]]
                /\ reply' = NoReply
    /\ UNCHANGED <<atletas, categorias, centros, issued, attempts, created, deleted>>

\* Lines 188-192: the body's fields are set on the athlete and committed.
PatchCommit(s) ==
    /\ sess[s].pc = "patch_commit"
    /\ LET atleta_update == ModelDumpExcludeUnset(sess[s].atleta_up)
           out == CommitUpdate(atletas, sess[s].id, atleta_update)
       IN  /\ atletas' = out.table
           /\ IF out.error
              THEN /\ sess' = [sess EXCEPT ![s] = Idle]
                   /\ reply' = [op |-> "patch",
                                request |-> [id |-> sess[s].id,
                                             atleta_up |-> sess[s].atleta_up],
                                response |-> Unhandled]
              ELSE /\ sess' = [sess EXCEPT ![s].pc = "patch_refresh"]
                   /\ reply' = NoReply
    /\ UNCHANGED <<categorias, centros, issued, attempts, created, deleted>>

\* Lines 193-195: refresh(atleta) reads the row again; it raises when the row
\* is gone.
PatchRefresh(s) ==
    /\ sess[s].pc = "patch_refresh"
    /\ LET atleta == FirstById(atletas, sess[s].id)
       IN  reply' = [op |-> "patch",
                     request |-> [id |-> sess[s].id, atleta_up |-> sess[s].atleta_up],
                     response |-> IF atleta = <<>> THEN Unhandled
                                  ELSE [status |-> 200, body |-> atleta[1]]]
    /\ sess' = [sess EXCEPT ![s] = Idle]
    /\ UNCHANGED <<atletas, categorias, centros, issued, attempts, created, deleted>>

\* ----------------------------------------------------------------- delete
\* DeleteNotFound with a detail that does not say which id.
DeleteNotFoundUnnamed(id) ==
    [status |-> 404, detail |-> <<"Atleta nao encontrado no id: ", 0>>]

\* Lines 210-214.
DeleteNotFound(id) ==
    [status |-> 404, detail |-> <<"Atleta nao encontrado no id: ", id>>]

\* CommitDelete whose DELETE has no WHERE clause.
CommitDeleteAll(table, id) == {}

\* Lines 216-217: delete(atleta) and commit(): the DELETE of the loaded row.
CommitDelete(table, id) == {r \in table : r.id # id}

\* Lines 204-214: the request arrives and the athlete is fetched.
DeleteFetch(s, id) ==
    /\ sess[s].pc = "idle"
    /\ LET atleta == FirstById(atletas, id)
       IN  IF atleta = <<>>
           THEN /\ reply' = [op |-> "delete", request |-> [id |-> id],
                             response |-> DeleteNotFound(id)]
                /\ UNCHANGED sess
           ELSE /\ sess' = [sess EXCEPT ![s] = [pc |-> "delete_commit", id |-> id]]
                /\ reply' = NoReply
    /\ UNCHANGED <<atletas, categorias, centros, issued, attempts, created, deleted>>

\* Lines 216-217.
DeleteCommit(s) ==
    /\ sess[s].pc = "delete_commit"
    /\ atletas' = CommitDelete(atletas, sess[s].id)
    /\ deleted' = deleted \cup {sess[s].id}
    /\ reply' = [op |-> "delete", request |-> [id |-> sess[s].id],
                 response |-> [status |-> 204]]
    /\ sess' = [sess EXCEPT ![s] = Idle]
    /\ UNCHANGED <<categorias, centros, issued, attempts, created>>

Init ==
    /\ atletas = {}
    /\ categorias = {[pk_id |-> 1, nome |-> "Scale"]}
    /\ centros = {[pk_id |-> 7, nome |-> "CT King"]}
    /\ issued = 0
    /\ sess = [s \in Sessions |-> Idle]
    /\ reply = NoReply
    /\ attempts = <<>>
    /\ created = {}
    /\ deleted = {}

\* The handlers that write to the store, and get, served by the sessions of S.
Write(S) ==
    \/ \E s \in S, atleta_in \in AtletaInputs : PostLookupCategoria(s, atleta_in)
    \/ \E s \in S : PostLookupCentro(s)
    \/ \E s \in S : PostPersist(s)
    \/ \E s \in S : PostPersistFails(s)
    \/ \E id \in UUIDs : Get(id)
    \/ \E s \in S, id \in UUIDs, atleta_up \in AtletaUpdates :
          PatchFetch(s, id, atleta_up)
    \/ \E s \in S : PatchCommit(s)
    \/ \E s \in S : PatchRefresh(s)
    \/ \E s \in S, id \in UUIDs : DeleteFetch(s, id)
    \/ \E s \in S : DeleteCommit(s)

\* The two lists.
List ==
    \/ \E nome \in QueryNomes, cpf \in QueryCpfs : Query(nome, cpf)
    \/ \E nome \in QueryNomes, cpf \in QueryCpfs, page \in Pages, size \in Sizes :
          QueryPaginated(nome, cpf, page, size)

\* Requests served concurrently.  The lists assign no variable but reply, so
\* they are left out of Next and checked under SpecList.
Next == Write(Sessions)

Spec == Init /\ [][Next]_vars

\* The lists, over the stores that requests served one at a time build.
NextList == List \/ Write({1})

SpecList == Init /\ [][NextList]_vars

\* ------------------------------------------------------------ the claims
Held(table, cpf) == \E r \in table : r.cpf = cpf

Ids(table) == {r.id : r \in table}

Replied(op, status) == reply.op = op /\ reply.response.status = status

\* The request arriving in this step is a get, patch or delete of id: it is
\* answered in the step, or it leaves its session past the fetch.
ArrivesById(id) ==
    \/ /\ reply'.op \in {"get", "patch", "delete"}
       /\ reply'.request.id = id
       /\ sess' = sess
    \/ \E s \in Sessions :
          /\ sess[s].pc = "idle"
          /\ sess'[s].pc \in {"patch_commit", "delete_commit"}
          /\ sess'[s].id = id

\* C1: a create that reaches the store with a CPF some athlete holds returns
\* 303 with a detail that names the CPF, and the athlete table stays as it was.
C1_DuplicateCpfConflict ==
    [][\A s \in Sessions :
          (PostPersist(s) /\ Held(atletas, sess[s].atleta_in.cpf)) =>
              /\ reply'.response.status = 303
              /\ reply'.response.detail[2] = sess[s].atleta_in.cpf
              /\ atletas' = atletas]_vars

C1_Witness ==
    /\ Replied("post", 303)
    /\ Held(atletas, reply.request.cpf)

\* C2: a create whose category and training center exist and whose CPF is
\* free returns 201 and adds exactly one row: its id is the id of no athlete
\* created before, deleted ones included, its foreign keys are the keys of the
\* category and the training center of those names, and no other row changes.
C2_CreateAddsOneAthlete ==
    [][\A s \in Sessions :
          (PostPersist(s) /\ ~Held(atletas, sess[s].atleta_in.cpf)) =>
              /\ reply'.response.status = 201
              /\ \E row \in atletas' :
                    /\ row \notin atletas
                    /\ atletas' = atletas \cup {row}
                    /\ row.id = reply'.response.body.id
                    /\ row.id \notin {e.id : e \in created}
                    /\ row.id \notin Ids(atletas) \cup deleted
                    /\ row.cpf = sess[s].atleta_in.cpf
                    /\ \E c \in categorias :
                          /\ c.nome = sess[s].atleta_in.categoria.nome
                          /\ row.categoria_id = c.pk_id
                    /\ \E c \in centros :
                          /\ c.nome = sess[s].atleta_in.centro_treinamento.nome
                          /\ row.centro_treinamento_id = c.pk_id]_vars

C2_Witness ==
    /\ Replied("post", 201)
    /\ deleted # {}
    /\ \E r \in atletas : r.id = reply.response.body.id

\* C3: a create naming a category that has no row returns 400 with a detail
\* that names the category, also when the training center is missing too;
\* otherwise a create naming a training center that has no row returns 400
\* with a detail that names the training center; the step that answers so
\* leaves the three tables as they were.
C3_MissingReference ==
    [][reply'.op = "post" =>
          LET categoria_nome == reply'.request.categoria.nome
              centro_nome == reply'.request.centro_treinamento.nome
              no_categoria == \A c \in categorias : c.nome # categoria_nome
              no_centro == \A c \in centros : c.nome # centro_nome
          IN  /\ no_categoria =>
                    /\ reply'.response.status = 400
                    /\ reply'.response.detail[2] = categoria_nome
                    /\ reply'.response.detail[1] = "A categoria "
              /\ (~no_categoria /\ no_centro) =>
                    /\ reply'.response.status = 400
                    /\ reply'.response.detail[2] = centro_nome
                    /\ reply'.response.detail[1] = "O centro de treinamento "
              /\ (no_categoria \/ no_centro) =>
                    /\ atletas' = atletas
                    /\ categorias' = categorias
                    /\ centros' = centros]_vars

C3_Witness ==
    /\ Replied("post", 400)
    /\ reply.request.categoria.nome = "Elite"
    /\ reply.request.centro_treinamento.nome = "CT Nowhere"
    /\ atletas # {}

C5_DeleteIsFinal ==
    /\ [](\A r \in atletas : r.id \notin deleted)
    /\ [][\A s \in Sessions :
             DeleteCommit(s) =>
                /\ reply'.response.status = 204
                /\ atletas' = {r \in atletas : r.id # sess[s].id}
                /\ \A r \in atletas' : r \in atletas]_vars
    /\ [][\A id \in deleted :
             ArrivesById(id) =>
                (reply'.op # "none" /\ reply'.response.status = 404)]_vars

C5_Witness ==
    /\ reply.op \in {"get", "patch", "delete"}
    /\ reply.response.status = 404
    /\ reply.request.id \in deleted
    /\ atletas # {}

\* C6: a get, patch or delete of an id no athlete has returns 404 with a
\* detail that names the id and changes neither the table nor any session; a
\* get of an id an athlete has returns that athlete and changes nothing.
C6_NotFound ==
    [][/\ \A id \in UUIDs \ Ids(atletas) :
             ArrivesById(id) =>
                /\ reply'.op \in {"get", "patch", "delete"}
                /\ reply'.response.status = 404
                /\ reply'.response.detail[2] = id
                /\ atletas' = atletas
                /\ sess' = sess
       /\ \A id \in Ids(atletas) :
             Get(id) =>
                /\ reply'.response.status = 200
                /\ reply'.response.body \in atletas
                /\ reply'.response.body.id = id
                /\ atletas' = atletas
                /\ sess' = sess]_vars

C6_Witness ==
    /\ Replied("delete", 404)
    /\ atletas # {}

\* The row r after a patch with body atleta_up, as the claim has it.
Patched(r, atleta_up) ==
    [id |-> r.id, created_at |-> r.created_at, cpf |-> r.cpf,
     categoria_id |-> r.categoria_id,
     centro_treinamento_id |-> r.centro_treinamento_id,
     nome |-> IF atleta_up.nome # <<>> THEN atleta_up.nome[1] ELSE r.nome,
     peso |-> IF atleta_up.peso # <<>> THEN atleta_up.peso[1] ELSE r.peso]

\* C7: the commit of a patch whose athlete is in the table sets the fields the
\* body carries to the body's values and leaves the other fields of the row
\* and every other row as they were (a body without fields changes nothing);
\* a patch that returns 200 returns the athlete as the table then holds it.
C7_PatchSetsOnlySentFields ==
    /\ [][\A s \in Sessions :
             (PatchCommit(s) /\ sess[s].id \in Ids(atletas)) =>
                /\ atletas' = {IF r.id = sess[s].id
                               THEN Patched(r, sess[s].atleta_up) ELSE r :
                               r \in atletas}
                /\ (sess[s].atleta_up.nome = <<>> /\ sess[s].atleta_up.peso = <<>>)
                      => atletas' = atletas
                /\ reply' = NoReply]_vars
    /\ [](Replied("patch", 200) =>
             /\ reply.response.body \in atletas
             /\ reply.response.body.id = reply.request.id)

C7_Witness ==
    /\ Replied("patch", 200)
    /\ reply.request.atleta_up.nome = <<>>
    /\ reply.request.atleta_up.peso # <<>>
    /\ reply.response.body.peso = reply.request.atleta_up.peso[1]
    /\ reply.response.body.nome = "Jane"
    /\ Cardinality(atletas) = 2

\* A query parameter counts as supplied when it is not None and, unless
\* empty_counts, not the empty string either.
Supplied(opt, empty_counts) == opt # <<>> /\ (empty_counts \/ opt[1] # "")

\* The athletes a list is to return.
Matching(table, nome, cpf, empty_counts) ==
    {r \in table : /\ Supplied(nome, empty_counts) => r.nome = nome[1]
                   /\ Supplied(cpf, empty_counts) => r.cpf = cpf[1]}

SeqRange(q) == {q[i] : i \in DOMAIN q}

ListsSelect(empty_counts) ==
    /\ reply.op = "query" =>
           reply.response.body =
               Matching(atletas, reply.request.nome, reply.request.cpf, empty_counts)
    /\ reply.op = "query_paginated" =>
           LET want == Matching(atletas, reply.request.nome, reply.request.cpf,
                                empty_counts)
           IN  /\ reply.response.body.total = Cardinality(want)
               /\ SeqRange(reply.response.body.items) \subseteq want

ListsChangeNothing ==
    reply'.op \in {"query", "query_paginated"} =>
        /\ atletas' = atletas
        /\ categorias' = categorias
        /\ centros' = centros
        /\ sess' = sess

\* C8 as stated: nome and cpf filter whenever they are supplied, the empty
\* string included; the paginated list selects the same set, and neither list
\* changes the store.
C8_ListFiltersWhenSupplied ==
    /\ [](ListsSelect(TRUE))
    /\ [][ListsChangeNothing]_vars

\* C8, amended: nome and cpf filter when they are supplied and not empty; an
\* empty string selects like a parameter that is not supplied.  The paginated
\* list selects the same set, and neither list changes the store.
C8_ListFiltersWhenNotEmpty ==
    /\ [](ListsSelect(FALSE))
    /\ [][ListsChangeNothing]_vars

C8_Witness ==
    /\ reply.op = "query"
    /\ reply.request.nome = <<"Jane">>
    /\ reply.request.cpf = <<"111">>
    /\ Cardinality(atletas) = 2
    /\ Cardinality(reply.response.body) = 1

\* C9 as stated: a create answered 303 or 500 leaves no pending row in its
\* session.
C9_RollbackBeforeAnyError ==
    (reply.op = "post" /\ reply.response.status \in {303, 500}) => reply.pending = {}

\* C9, amended: a create answered 303 leaves no pending row in its session.
C9_RollbackBeforeConflict ==
    (reply.op = "post" /\ reply.response.status = 303) => reply.pending = {}

C9_Witness == Replied("post", 303)

====
